---------------------------- MODULE Spec2Model ----------------------------
(***************************************************************************)
(* A model of Seattle_OSM.py: the street-name normaliser (update_name),    *)
(* the element shaper (shape_element), the batching loader (process_map)   *)
(* and the five cleaning passes the script runs against the loaded         *)
(* collection.                                                             *)
(*                                                                         *)
(* Python strings are sequences of one-character strings, so that the      *)
(* regular expressions, str.replace, str.split, str.startswith and         *)
(* slicing are computed character by character.                            *)
(***************************************************************************)
EXTENDS Integers, Sequences, FiniteSets, TLC

VARIABLES
    outs,       \* update_name: the input name followed by each call's result
    element,    \* shape_element: the element handed to it
    shaped,     \* shape_element: its return value, once it has run
    spc,        \* shape_element: "call" before the call, "returned" after
    data,       \* process_map: the in-memory batch
    i,          \* process_map: the counter of documents in the batch
    inserted,   \* process_map: the batches passed to insert_many, in call order
    results,    \* process_map: every non-None shape_element result, in order
    nread,      \* process_map: elements read from the stream so far
    lpc,        \* process_map: "loop", "final", "done" or "raised"
    store,      \* the collection db.seattle_data: _id -> document
    loaded,     \* the collection as it was when cleaning started
    before,     \* the collection before the most recent cleaning pass
    last,       \* the most recent cleaning pass (0: none yet)
    reps,       \* how many times in a row that pass has just run
    pc          \* the script: the cleaning pass to run next (6: all done)

vars == <<outs, element, shaped, spc, data, i, inserted, results, nread, lpc,
          store, loaded, before, last, reps, pc>>

-----------------------------------------------------------------------------
(* Bounds of the model *)

\* longest street name handed to update_name
MaxNameLen == 4
\* how many times update_name is applied in a row
MaxCalls == 2
\* most child tags of an element
MaxTags == 2
\* most nd children of a way
MaxNds == 2
\* most elements the input stream yields
MaxStream == 6
\* the batch size of process_map: the source flushes at 10000 documents,
\* the model at this many
BatchSize == 2
\* longest address.postcode in the collection
MaxPostLen == 6
\* how many times in a row a cleaning pass is run
MaxReps == 2

-----------------------------------------------------------------------------
(* Characters and strings *)

Letters ==
    {"a","b","c","d","e","f","g","h","i","j","k","l","m",
     "n","o","p","q","r","s","t","u","v","w","x","y","z",
     "A","B","C","D","E","F","G","H","I","J","K","L","M",
     "N","O","P","Q","R","S","T","U","V","W","X","Y","Z"}

Digits == {"0","1","2","3","4","5","6","7","8","9"}

\* \w of a Python 2 byte-string pattern: [A-Za-z0-9_]
WordChars == Letters \cup Digits \cup {"_"}

\* \s of a Python 2 byte-string pattern: [ \t\n\r\f\v]
SpaceChars == {" ", "\t", "\n", "\r", "\f"}

\* the sequences over S of length at most n
SeqsUpTo(S, n) == UNION { [1..k -> S] : k \in 0..n }

\* s[from:] for a 1-based from
Drop(s, n) == SubSeq(s, n + 1, Len(s))

\* s[:n]
Take(s, n) == SubSeq(s, 1, IF n < Len(s) THEN n ELSE Len(s))

\* s.startswith(p)
StartsWith(s, p) == Len(p) <= Len(s) /\ SubSeq(s, 1, Len(p)) = p

\* s.replace(old, new): the non-overlapping occurrences of old in s, left
\* to right, become new (old is never empty here)
RECURSIVE Replace(_, _, _)
Replace(s, old, new) ==
    IF Len(s) < Len(old) THEN s
    ELSE IF StartsWith(s, old)
         THEN new \o Replace(Drop(s, Len(old)), old, new)
         ELSE <<Head(s)>> \o Replace(Tail(s), old, new)

\* only the first occurrence of old in s becomes new
RECURSIVE ReplaceFirst(_, _, _)
ReplaceFirst(s, old, new) ==
    IF Len(s) < Len(old) THEN s
    ELSE IF StartsWith(s, old)
         THEN new \o Drop(s, Len(old))
         ELSE <<Head(s)>> \o ReplaceFirst(Tail(s), old, new)

-----------------------------------------------------------------------------
(* update_name *)

mapping ==
       (<<"S", "t">> :> <<"S", "t", "r", "e", "e", "t">>)
    @@ (<<"S", "t", ".">> :> <<"S", "t", "r", "e", "e", "t">>)
    @@ (<<"R", "d">> :> <<"R", "o", "a", "d">>)
    @@ (<<"R", "d", ".">> :> <<"R", "o", "a", "d">>)
    @@ (<<"A", "v", "e">> :> <<"A", "v", "e", "n", "u", "e">>)
    @@ (<<"H", "w", "y">> :> <<"H", "i", "g", "h", "w", "a", "y">>)
    @@ (<<"N", "E">> :> <<"N", "o", "r", "t", "h", "e", "a", "s", "t">>)
    @@ (<<"N", ".", "E", ".">> :> <<"N", "o", "r", "t", "h", "e", "a", "s", "t">>)
    @@ (<<"N", "W">> :> <<"N", "o", "r", "t", "h", "w", "e", "s", "t">>)
    @@ (<<"N", ".", "W", ".">> :> <<"N", "o", "r", "t", "h", "w", "e", "s", "t">>)
    @@ (<<"S">> :> <<"S", "o", "u", "t", "h">>)
    @@ (<<"S", "E">> :> <<"S", "o", "u", "t", "h", "e", "a", "s", "t">>)
    @@ (<<"S", ".", "E", ".">> :> <<"S", "o", "u", "t", "h", "e", "a", "s", "t">>)
    @@ (<<"S", "W">> :> <<"S", "o", "u", "t", "h", "w", "e", "s", "t">>)
    @@ (<<"S", ".", "W", ".">> :> <<"S", "o", "u", "t", "h", "w", "e", "s", "t">>)
    @@ (<<"W">> :> <<"W", "e", "s", "t">>)
    @@ (<<"E">> :> <<"E", "a", "s", "t">>)

\* \b at the place before s[p] (p in 1..Len(s)+1): exactly one of the two
\* neighbouring characters is a word character
WordBoundary(s, p) ==
    (p > 1 /\ s[p - 1] \in WordChars) # (p <= Len(s) /\ s[p] \in WordChars)

\* the places where $ matches: the end of the string, and just before a
\* newline that ends it
DollarPlaces(s) ==
    {Len(s) + 1} \cup (IF Len(s) > 0 /\ s[Len(s)] = "\n" THEN {Len(s)} ELSE {})

\* \S+\.?$ matched from p: the end (exclusive) of the match, 0 when there is
\* none.  \S+ is greedy and "." is itself a \S, so a match runs to the one
\* $ place that only non-space characters separate from p.
MatchEndFrom(s, p) ==
    LET ends == { q \in DollarPlaces(s) :
                    q > p /\ \A j \in p..(q - 1) : s[j] \notin SpaceChars }
    IN  IF ends = {} THEN 0 ELSE CHOOSE q \in ends : \A r \in ends : r <= q

\* the start places at which \b\S+\.?$ matches
MatchStarts(s) ==
    { p \in 1..Len(s) : WordBoundary(s, p) /\ MatchEndFrom(s, p) # 0 }

\* street_type_re.search(name): whether there is a match
street_type_re_search(s) == MatchStarts(s) # {}

\* m.group() of street_type_re.search(name): the leftmost match
street_type_re_group(s) ==
    LET p == CHOOSE x \in MatchStarts(s) : \A y \in MatchStarts(s) : x <= y
    IN  SubSeq(s, p, MatchEndFrom(s, p) - 1)

\* update_name with the replacement limited to the first occurrence
update_name_first(name, map) ==
    IF street_type_re_search(name)
    THEN LET street_type == street_type_re_group(name)
         IN  IF street_type \in DOMAIN map
             THEN ReplaceFirst(name, street_type, map[street_type])
             ELSE name
    ELSE name

\* update_name comparing with "key in street_type" instead of ==
update_name_contains(name, map) ==
    IF street_type_re_search(name)
    THEN LET street_type == street_type_re_group(name)
             hits == { k \in DOMAIN map :
                         \E p \in 1..Len(street_type) :
                             StartsWith(Drop(street_type, p - 1), k) }
         IN  IF hits # {}
             THEN LET key == CHOOSE k \in hits : \A h \in hits : Len(h) <= Len(k)
                  IN  Replace(name, key, map[key])
             ELSE name
    ELSE name

\* update_name(name, mapping): the keys of a dict are distinct, so at most
\* one key equals street_type and the loop replaces at most once
update_name(name, map) ==
    IF street_type_re_search(name)
    THEN LET street_type == street_type_re_group(name)
         IN  IF street_type \in DOMAIN map
             THEN Replace(name, street_type, map[street_type])
             ELSE name
    ELSE name

-----------------------------------------------------------------------------
(* Values of a document *)

\* A scalar: a string, None, or a float (kept as the numeral it was parsed
\* from; no operation of the program reads a float back).
SStr(s) == [t |-> "str", s |-> s]
SNone == [t |-> "none", s |-> <<>>]
SFloat(s) == [t |-> "float", s |-> s]

\* A top-level field: a scalar, a dict of scalars or a list of scalars.
VScalar(x) == [t |-> x.t, s |-> x.s, d |-> <<>>, l |-> <<>>]
VStr(s) == VScalar(SStr(s))
VDict(d) == [t |-> "dict", s |-> <<>>, d |-> d, l |-> <<>>]
VList(l) == [t |-> "list", s |-> <<>>, d |-> <<>>, l |-> l]

\* d[k] = v on a dict (a function from strings)
DictSet(d, k, v) == (k :> v) @@ d

\* the keys the shaper and the queries name
k_pos == <<"p", "o", "s">>
k_created == <<"c", "r", "e", "a", "t", "e", "d">>
k_changeset == <<"c", "h", "a", "n", "g", "e", "s", "e", "t">>
k_user == <<"u", "s", "e", "r">>
k_version == <<"v", "e", "r", "s", "i", "o", "n">>
k_uid == <<"u", "i", "d">>
k_timestamp == <<"t", "i", "m", "e", "s", "t", "a", "m", "p">>
k_visible == <<"v", "i", "s", "i", "b", "l", "e">>
k_type == <<"t", "y", "p", "e">>
k_id == <<"i", "d">>
k_address == <<"a", "d", "d", "r", "e", "s", "s">>
k_node_refs == <<"n", "o", "d", "e", "_", "r", "e", "f", "s">>
k_addr_colon == <<"a", "d", "d", "r", ":">>
k_addr_street == <<"a", "d", "d", "r", ":", "s", "t", "r", "e", "e", "t">>
t_node == <<"n", "o", "d", "e">>
t_way == <<"w", "a", "y">>
t_relation == <<"r", "e", "l", "a", "t", "i", "o", "n">>
t_tag == <<"t", "a", "g">>

-----------------------------------------------------------------------------
(* shape_element *)

\* the character class of problemchars
ProblemChars ==
    {"=", "+", "/", "&", "<", ">", ";", "'", "\"", "?", "%", "#", "$", "@",
     ",", ".", " ", "\t", "\r", "\n"}

\* problemchars.match(k): re.match anchors the pattern at the start of k,
\* so only the first character is tested
problemchars_match(k) == Len(k) >= 1 /\ k[1] \in ProblemChars

\* k.split(":")
RECURSIVE Split(_, _)
Split(s, sep) ==
    IF \A p \in 1..Len(s) : s[p] # sep
    THEN <<s>>
    ELSE LET p == CHOOSE x \in 1..Len(s) :
                      s[x] = sep /\ \A y \in 1..(x - 1) : s[y] # sep
         IN  <<SubSeq(s, 1, p - 1)>> \o Split(Drop(s, p), sep)

\* element.get(a): the attribute, or None when the element has none
Get(el, a) == IF a \in DOMAIN el.attrib THEN SStr(el.attrib[a]) ELSE SNone

\* str(x) of an attribute value
PyStr(x) == IF x.t = "none" THEN <<"N", "o", "n", "e">> ELSE x.s

\* whether float(s) returns rather than raises, for the numerals the model
\* feeds it: an optional sign, digits, at most one point, at least one digit
FloatParses(s) ==
    LET body == IF Len(s) >= 1 /\ s[1] \in {"+", "-"} THEN Tail(s) ELSE s
    IN  /\ \A p \in 1..Len(body) : body[p] \in Digits \cup {"."}
        /\ \E p \in 1..Len(body) : body[p] \in Digits
        /\ Cardinality({ p \in 1..Len(body) : body[p] = "." }) <= 1

\* is_street_name(elem)
is_street_name(k) == k = k_addr_street

\* one turn of the loop over the child tags: st is <<node, address>>
TagStep(st, tag) ==
    LET node == st[1]
        address == st[2]
        k_element == tag.k
    IN  IF ~ problemchars_match(k_element)
        THEN IF StartsWith(k_element, k_addr_colon)
             THEN LET v_element == IF is_street_name(k_element)
                                   THEN update_name(tag.v, mapping)
                                   ELSE tag.v
                      k_elements == Split(k_element, ":")
                  IN  IF Len(k_elements) < 3
                      THEN <<node, DictSet(address, k_elements[2], SStr(v_element))>>
                      ELSE st
             ELSE <<DictSet(node, k_element, VStr(tag.v)), address>>
        ELSE st

\* the loop "for subelement in element.iter('tag')"
RECURSIVE TagLoop(_, _)
TagLoop(st, tags) ==
    IF tags = <<>> THEN st ELSE TagLoop(TagStep(st, Head(tags)), Tail(tags))

\* the dict "created"
Created(el) ==
    DictSet(DictSet(DictSet(DictSet(DictSet(<<>>,
        k_changeset, Get(el, "changeset")),
        k_user, Get(el, "user")),
        k_version, Get(el, "version")),
        k_uid, Get(el, "uid")),
        k_timestamp, Get(el, "timestamp"))

\* what shape_element returns: None, or the dict node
None == [none |-> TRUE, doc |-> <<>>]
Returned(node) == [none |-> FALSE, doc |-> node]

\* shape_element(element)
shape_element(el) ==
    IF el.tag = t_node \/ el.tag = t_way
    THEN LET lat == PyStr(Get(el, "lat"))
             lon == PyStr(Get(el, "lon"))
             n1 == IF FloatParses(lat) /\ FloatParses(lon)
                   THEN DictSet(<<>>, k_pos, VList(<<SFloat(lat), SFloat(lon)>>))
                   ELSE <<>>
             n2 == DictSet(n1, k_created, VDict(Created(el)))
             n3 == DictSet(n2, k_visible, VScalar(Get(el, "visible")))
             n4 == DictSet(n3, k_type, VStr(el.tag))
             n5 == DictSet(n4, k_id, VScalar(Get(el, "id")))
             st == TagLoop(<<n5, <<>>>>, el.tags)
             address == st[2]
             n6 == IF address # <<>>
                   THEN DictSet(st[1], k_address, VDict(address))
                   ELSE st[1]
             n7 == IF el.tag = t_way
                   THEN DictSet(n6, k_node_refs,
                                VList([j \in 1..Len(el.nds) |-> SStr(el.nds[j])]))
                   ELSE n6
         IN  Returned(n7)
    ELSE None

-----------------------------------------------------------------------------
(* The normaliser applied to a name, and applied again to its result *)

NameChars == {"S", "t", "E", "s", ".", " ", "-", "\n"}

\* the names of at most n characters
Names(n) == SeqsUpTo(NameChars, n)

IdleName == outs = <<>>
IdleShape == element = <<>> /\ shaped = <<>> /\ spc = "idle"
IdleLoad ==
    /\ data = <<>> /\ i = 0 /\ inserted = <<>> /\ results = <<>>
    /\ nread = 0 /\ lpc = "idle"
IdleClean ==
    /\ store = <<>> /\ loaded = <<>> /\ before = <<>>
    /\ last = 0 /\ reps = 0 /\ pc = 0

InitName ==
    /\ \E n \in Names(MaxNameLen) : outs = <<n>>
    /\ IdleShape /\ IdleLoad /\ IdleClean

CallUpdateName ==
    /\ Len(outs) >= 1
    /\ Len(outs) <= MaxCalls
    /\ outs' = Append(outs, update_name(outs[Len(outs)], mapping))
    /\ UNCHANGED <<element, shaped, spc, data, i, inserted, results, nread,
                   lpc, store, loaded, before, last, reps, pc>>

NextName == CallUpdateName

SpecName == InitName /\ [][NextName]_vars

-----------------------------------------------------------------------------
(* shape_element applied to one element *)

\* attributes of a node, of a node whose lat is not a number, and of a way
\* (a way carries no lat and lon; the extract carries no visible attribute)
NodeAttrib ==
    [id |-> <<"7">>, lat |-> <<"4", "7", ".", "6">>,
     lon |-> <<"-", "1", "2", "2", ".", "3">>, changeset |-> <<"1", "1">>,
     user |-> <<"b", "o", "b">>, version |-> <<"2">>, uid |-> <<"3">>,
     timestamp |-> <<"2", "0", "1", "6">>]
BadLatAttrib == [NodeAttrib EXCEPT !.lat = <<"x">>]
WayAttrib ==
    [id |-> <<"8">>, changeset |-> <<"1", "2">>, user |-> <<"a", "n", "n">>,
     version |-> <<"1">>, uid |-> <<"4">>, timestamp |-> <<"2", "0", "1", "7">>]

TagKeys ==
    { k_addr_street,
      <<"a", "d", "d", "r", ":", "c", "i", "t", "y">>,
      <<"a", "d", "d", "r", ":", "s", "t", "r", "e", "e", "t", ":", "n", "a", "m", "e">>,
      <<"a", "d", "d", "r", ":", "a", " ", "b">>,
      k_type, k_id, k_address, k_node_refs,
      <<"n", "a", "m", "e">>,
      <<"a", ".", "b">>,
      <<"?", "x">> }

TagValues == { <<"y">>, <<"N", " ", "S", "t">> }

Tags == [k : TagKeys, v : TagValues]

Refs == { <<"1">>, <<"2">> }

\* the elements of at most nt child tags and, for a way, at most nn nd
\* children; an element of another kind carries at most one child tag
Elements(nt, nn) ==
    [tag : {t_node}, attrib : {NodeAttrib, BadLatAttrib},
     tags : SeqsUpTo(Tags, nt), nds : {<<>>}]
    \cup
    [tag : {t_way}, attrib : {WayAttrib},
     tags : SeqsUpTo(Tags, nt), nds : SeqsUpTo(Refs, nn)]
    \cup
    [tag : {t_relation, t_tag}, attrib : {WayAttrib},
     tags : SeqsUpTo(Tags, 1), nds : {<<>>}]

InitShape ==
    /\ element \in Elements(MaxTags, MaxNds)
    /\ shaped = <<>>
    /\ spc = "call"
    /\ IdleName /\ IdleLoad /\ IdleClean

CallShapeElement ==
    /\ spc = "call"
    /\ shaped' = shape_element(element)
    /\ spc' = "returned"
    /\ UNCHANGED <<outs, element, data, i, inserted, results, nread, lpc,
                   store, loaded, before, last, reps, pc>>

NextShape == CallShapeElement

SpecShape == InitShape /\ [][NextShape]_vars

-----------------------------------------------------------------------------
(* process_map *)

\* the elements ET.iterparse yields: two nodes, a way, a relation
StreamElements ==
    [tag : {t_node}, attrib : {[NodeAttrib EXCEPT !.id = <<"1">>],
                               [NodeAttrib EXCEPT !.id = <<"2">>]},
     tags : {<<>>}, nds : {<<>>}]
    \cup
    [tag : {t_way}, attrib : {WayAttrib}, tags : {<<>>}, nds : {<<<<"1">>, <<"2">>>>}]
    \cup
    [tag : {t_relation}, attrib : {WayAttrib}, tags : {<<>>}, nds : {<<>>}]

\* the list left as it was
NotCleared(d) == d

\* data[:] = [] leaves the list empty
Cleared(d) == <<>>

InitLoad ==
    /\ data = <<>>
    /\ i = 0
    /\ inserted = <<>>
    /\ results = <<>>
    /\ nread = 0
    /\ lpc = "loop"
    /\ IdleName /\ IdleShape /\ IdleClean

\* one turn of "for _, element in ET.iterparse(file_in)".  insert_many is
\* the store's: it takes the documents of the list it is passed and
\* returns, or it raises and the exception leaves process_map.
LoopTurn ==
    /\ lpc = "loop"
    /\ nread < MaxStream
    /\ \E e \in StreamElements :
        LET el == shape_element(e)
        IN  /\ nread' = nread + 1
            /\ IF el # None
               THEN /\ results' = Append(results, el.doc)
                    /\ IF i + 1 = BatchSize
                       THEN \/ /\ inserted' = Append(inserted, Append(data, el.doc))
                               /\ data' = Cleared(Append(data, el.doc))
                               /\ i' = 0
                               /\ lpc' = "loop"
                            \/ /\ inserted' = Append(inserted, Append(data, el.doc))
                               /\ data' = Append(data, el.doc)
                               /\ i' = i + 1
                               /\ lpc' = "raised"
                       ELSE /\ data' = Append(data, el.doc)
                            /\ i' = i + 1
                            /\ UNCHANGED <<inserted, lpc>>
               ELSE UNCHANGED <<data, i, inserted, results, lpc>>
    /\ UNCHANGED <<outs, element, shaped, spc, store, loaded, before, last,
                   reps, pc>>

\* the stream ends: "db_table.insert_many(data)" after the loop
FinalInsert ==
    /\ lpc = "loop"
    /\ inserted' = Append(inserted, data)
    /\ \E ok \in BOOLEAN : lpc' = IF ok THEN "done" ELSE "raised"
    /\ UNCHANGED <<data, i, results, nread>>
    /\ UNCHANGED <<outs, element, shaped, spc, store, loaded, before, last,
                   reps, pc>>

NextLoad == LoopTurn \/ FinalInsert

SpecLoad == InitLoad /\ [][NextLoad]_vars

-----------------------------------------------------------------------------
(* The store's operations on db.seattle_data *)

k_province == <<"p", "r", "o", "v", "i", "n", "c", "e">>
k_state == <<"s", "t", "a", "t", "e">>
k_country == <<"c", "o", "u", "n", "t", "r", "y">>
k_postcode == <<"p", "o", "s", "t", "c", "o", "d", "e">>

v_British_Columbia ==
    <<"B", "r", "i", "t", "i", "s", "h", " ", "C", "o", "l", "u", "m", "b", "i", "a">>
v_BC == <<"B", "C">>
v_CA == <<"C", "A">>
v_US == <<"U", "S">>
v_WA == <<"W", "A">>

\* the six spellings of the state the script rewrites to WA
WashingtonSpellings ==
    { <<"w", "a", "s", "h", "i", "n", "g", "t", "o", "n">>,
      <<"W", "a", "s", "h", "i", "n", "g", "t", "o", "n">>,
      <<"w", "a">>,
      <<"W", "a">>,
      <<"W", "A", ".">>,
      <<"W", "A", " ", "-", " ", "W", "a", "s", "h", "i", "n", "g", "t", "o", "n">> }

\* the sub-document a path "address.<f>" goes through: the dict under
\* "address", empty when the document has none
AddressOf(doc) ==
    IF k_address \in DOMAIN doc /\ doc[k_address].t = "dict"
    THEN doc[k_address].d
    ELSE <<>>

\* {"address.<f>": {"$exists": ...}} with a true argument
FieldExists(doc, f) == f \in DOMAIN AddressOf(doc)

\* {"address.<f>": {"$eq": v}}
FieldEq(doc, f, v) == FieldExists(doc, f) /\ AddressOf(doc)[f] = SStr(v)

\* {"$set": {"address.<f>": v}} applied to one document
SetField(doc, f, v) ==
    DictSet(doc, k_address, VDict(DictSet(AddressOf(doc), f, SStr(v))))

\* a filter {"address.<f>": {"$eq": v}}, or the "$or" of such filters on one
\* field, is the field with the values it accepts
Filter(f, vs) == [f |-> f, vs |-> vs]

\* whether the document matches the filter
Matches(doc, filter) == \E v \in filter.vs : FieldEq(doc, filter.f, v)

\* update_many(filter, {"$set": {"address.<f>": v}})
update_many(s, filter, f, v) ==
    [d \in DOMAIN s |-> IF Matches(s[d], filter) THEN SetField(s[d], f, v) ELSE s[d]]

\* the "$set" applied to every document, matching or not
update_all(s, id, f, v) ==
    [d \in DOMAIN s |-> SetField(s[d], f, v)]

\* update_one({"_id": {"$eq": id}}, {"$set": {"address.<f>": v}})
update_one(s, id, f, v) ==
    [d \in DOMAIN s |-> IF d = id THEN SetField(s[d], f, v) ELSE s[d]]

\* re.compile("^\d{5}$") found in p: five digits, up to a place where $
\* matches
postcode_re_search(p) ==
    /\ Len(p) >= 5
    /\ \A j \in 1..5 : p[j] \in Digits
    /\ 6 \in DollarPlaces(p)

\* match1: the postcode exists and the country is US
match1(doc) == FieldExists(doc, k_postcode) /\ FieldEq(doc, k_country, v_US)

\* match2: {"address.postcode": {"$not": <the pattern>}}
match2(doc) ==
    ~ (/\ FieldExists(doc, k_postcode)
       /\ AddressOf(doc)[k_postcode].t = "str"
       /\ postcode_re_search(AddressOf(doc)[k_postcode].s))

\* the _ids of S in ascending order
RECURSIVE Ascending(_)
Ascending(S) ==
    IF S = {} THEN <<>>
    ELSE LET m == CHOOSE x \in S : \A y \in S : x <= y
         IN  <<m>> \o Ascending(S \ {m})

\* aggregate([match1, match2]): the matching documents, each with its _id
aggregate(s) ==
    LET ids == Ascending({ d \in DOMAIN s : match1(s[d]) /\ match2(s[d]) })
    IN  [j \in 1..Len(ids) |-> [id |-> ids[j], doc |-> s[ids[j]]]]

\* the postcode without its last four characters
WithoutLastFour(p) == Take(p, IF Len(p) >= 4 THEN Len(p) - 4 ELSE 0)

\* post_code = r["address"]["postcode"][:5]
post_code(p) == Take(p, 5)

-----------------------------------------------------------------------------
(* The five cleaning passes *)

\* the filters of passes 1 to 4
province_British_Columbia == Filter(k_province, {v_British_Columbia})
province_BC == Filter(k_province, {v_BC})
state_spelled_out == Filter(k_state, WashingtonSpellings)
state_WA == Filter(k_state, {v_WA})

ProvinceIsBritishColumbia(doc) == Matches(doc, province_British_Columbia)
ProvinceIsBC(doc) == Matches(doc, province_BC)
StateIsWA(doc) == Matches(doc, state_WA)

\* pass 1: province British Columbia becomes BC
Pass1(s) == update_many(s, province_British_Columbia, k_province, v_BC)

\* pass 2 with the filter of pass 1
Pass2_FilterOfPass1(s) == update_many(s, province_British_Columbia, k_country, v_CA)

\* pass 2: province BC sets country CA
Pass2(s) == update_many(s, province_BC, k_country, v_CA)

\* pass 3: the six spellings of the state become WA
Pass3(s) == update_many(s, state_spelled_out, k_state, v_WA)

\* pass 4: state WA sets country US
Pass4(s) == update_many(s, state_WA, k_country, v_US)

\* the loop "for r in result" over a cursor rs, updating one document a turn
RECURSIVE FixLoop(_, _)
FixLoop(s, rs) ==
    IF rs = <<>> THEN s
    ELSE FixLoop(update_one(s, Head(rs).id, k_postcode,
                            post_code(AddressOf(Head(rs).doc)[k_postcode].s)),
                 Tail(rs))

\* pass 5: the postcodes of US documents that are not five digits are cut
Pass5(s) == FixLoop(s, aggregate(s))

RunPass(p, s) ==
    CASE p = 1 -> Pass1(s)
      [] p = 2 -> Pass2(s)
      [] p = 3 -> Pass3(s)
      [] p = 4 -> Pass4(s)
      [] p = 5 -> Pass5(s)

\* the count of the last query: US documents whose postcode is not five digits
Unfixed(s) == Len(aggregate(s))

-----------------------------------------------------------------------------
(* The collections the passes run on *)

PostChars == {"9", "-", "\n"}

\* a field that is absent or holds one of the values vs
Opt(f, vs) == {<<>>} \cup { f :> SStr(v) : v \in vs }

\* addresses over province, state and country
PlaceAddresses ==
    { p @@ st @@ c :
        p \in Opt(k_province, {v_British_Columbia, v_BC,
                               <<"A", "l", "b", "e", "r", "t", "a">>}),
        st \in Opt(k_state, WashingtonSpellings \cup {v_WA, <<"O", "R">>}),
        c \in Opt(k_country, {v_US, v_CA}) }

\* addresses with a postcode of at most n characters, and a country or a
\* state that pass 3 and pass 4 turn into the country US
PostAddresses(n) ==
    { c @@ (k_postcode :> SStr(x)) :
        c \in Opt(k_country, {v_US, v_CA}) \cup {k_state :> SStr(<<"w", "a">>)},
        x \in SeqsUpTo(PostChars, n) }

\* the addresses of the second document
OtherAddresses ==
    { <<>>,
      (k_country :> SStr(v_US)) @@ (k_postcode :> SStr(<<"9", "9", "9", "9", "9", "-", "9">>)),
      (k_province :> SStr(v_British_Columbia)) @@ (k_state :> SStr(<<"W", "a">>)) }

\* a stored document: the fields other than address are neither read nor
\* written by the passes
Document(a) == IF a = <<>> THEN <<>> ELSE DictSet(<<>>, k_address, VDict(a))

\* the collections of two documents, _id 1 and 2
Stores(n) ==
    { <<Document(a), Document(b)>> :
        a \in PlaceAddresses \cup PostAddresses(n), b \in OtherAddresses }

-----------------------------------------------------------------------------
(* The script's cleaning: the five passes once, in order *)

InitClean ==
    /\ store \in Stores(MaxPostLen)
    /\ loaded = store
    /\ before = store
    /\ last = 0
    /\ reps = 0
    /\ pc = 1
    /\ IdleName /\ IdleShape /\ IdleLoad

ScriptPass(p) ==
    /\ pc = p
    /\ store' = RunPass(p, store)
    /\ before' = store
    /\ last' = p
    /\ reps' = 1
    /\ pc' = p + 1
    /\ UNCHANGED <<outs, element, shaped, spc, data, i, inserted, results,
                   nread, lpc, loaded>>

UpdateProvince == ScriptPass(1)
UpdateProvinceCountry == ScriptPass(2)
UpdateState == ScriptPass(3)
UpdateStateCountry == ScriptPass(4)
FixPostcodes == ScriptPass(5)

NextClean ==
    \/ UpdateProvince
    \/ UpdateProvinceCountry
    \/ UpdateState
    \/ UpdateStateCountry
    \/ FixPostcodes

SpecClean == InitClean /\ [][NextClean]_vars

-----------------------------------------------------------------------------
(* One pass run on any collection, then run again *)

InitRerun ==
    /\ store \in Stores(MaxPostLen)
    /\ loaded = store
    /\ before = store
    /\ last = 0
    /\ reps = 0
    /\ pc = 0
    /\ IdleName /\ IdleShape /\ IdleLoad

FirstRun ==
    /\ last = 0
    /\ \E p \in 1..5 :
        /\ store' = RunPass(p, store)
        /\ last' = p
    /\ before' = store
    /\ reps' = 1
    /\ UNCHANGED <<outs, element, shaped, spc, data, i, inserted, results,
                   nread, lpc, loaded, pc>>

RunAgain ==
    /\ last # 0
    /\ reps < MaxReps
    /\ store' = RunPass(last, store)
    /\ before' = store
    /\ reps' = reps + 1
    /\ UNCHANGED <<outs, element, shaped, spc, data, i, inserted, results,
                   nread, lpc, loaded, last, pc>>

NextRerun == FirstRun \/ RunAgain

SpecRerun == InitRerun /\ [][NextRerun]_vars

-----------------------------------------------------------------------------
(* Claims about shape_element *)

\* the value of the last child tag with key k
LastValue(tags, k) ==
    LET js == { j \in 1..Len(tags) : tags[j].k = k }
    IN  tags[CHOOSE j \in js : \A h \in js : h <= j].v

\* key k, of the form addr:<field>..., has an entry under its second segment
InAddress(doc, k) ==
    /\ StartsWith(k, k_addr_colon)
    /\ Split(k, ":")[2] \in DOMAIN AddressOf(doc)

ShapedDoc == spc = "returned" /\ ~ shaped.none

\* the key holds a problem character at some place
problemchars_search(k) == \E p \in 1..Len(k) : k[p] \in ProblemChars

\* C1: a child tag whose key contains a problem character, at any place of
\* the key, is stored neither in the address record nor as a top-level field.
C1_ProblemKeysDropped ==
    ShapedDoc =>
        \A j \in 1..Len(element.tags) :
            LET k == element.tags[j].k
            IN  problemchars_search(k) =>
                    /\ k \notin DOMAIN shaped.doc
                    /\ ~ InAddress(shaped.doc, k)

\* C2: the returned document's id is the element's id attribute and its type
\* is the element's tag name, whatever the child tags are.
C2_IdAndTypeFromElement ==
    ShapedDoc =>
        /\ shaped.doc[k_id] = VStr(element.attrib.id)
        /\ shaped.doc[k_type] = VStr(element.tag)

\* C3: a child tag whose key has no problem character goes to exactly one
\* place: addr:<field> to address[<field>] and not to the top level; an addr:
\* key of three or more segments nowhere; any other key to the top-level
\* field of that name, holding the value of its last occurrence.
C3_RoutingByKey ==
    ShapedDoc =>
        \A j \in 1..Len(element.tags) :
            LET k == element.tags[j].k
                tags == element.tags
                segs == Split(k, ":")
                doc == shaped.doc
            IN  ~ problemchars_search(k) =>
                    IF StartsWith(k, k_addr_colon) /\ Len(segs) = 2
                    THEN /\ k \notin DOMAIN doc
                         /\ segs[2] \in DOMAIN AddressOf(doc)
                         /\ AddressOf(doc)[segs[2]] =
                                SStr(IF is_street_name(k)
                                     THEN update_name(LastValue(tags, k), mapping)
                                     ELSE LastValue(tags, k))
                    ELSE IF StartsWith(k, k_addr_colon)
                    THEN /\ k \notin DOMAIN doc
                         /\ k \notin DOMAIN AddressOf(doc)
                         /\ segs[2] \in DOMAIN AddressOf(doc) =>
                                \E h \in 1..Len(tags) :
                                    Split(tags[h].k, ":") = <<segs[1], segs[2]>>
                    ELSE /\ k \in DOMAIN doc
                         /\ doc[k] = VStr(LastValue(tags, k))

-----------------------------------------------------------------------------
(* Claims about update_name *)

\* the 15 abbreviations the claim lists
ListedKeys ==
    { <<"S", "t">>, <<"R", "d">>, <<"A", "v", "e">>, <<"H", "w", "y">>,
      <<"N", "E">>, <<"N", ".", "E", ".">>, <<"N", "W">>, <<"N", ".", "W", ".">>,
      <<"S">>, <<"S", "E">>, <<"S", ".", "E", ".">>, <<"S", "W">>,
      <<"S", ".", "W", ".">>, <<"W">>, <<"E">> }

\* the two the table holds besides
DottedKeys == { <<"S", "t", ".">>, <<"R", "d", ".">> }

\* the name has no trailing token, or one that is none of the keys
NoKeyToken(name, keys) ==
    ~ street_type_re_search(name) \/ street_type_re_group(name) \notin keys

\* C4 as stated: a name whose trailing token is none of the 15 listed keys
\* (or that has none) comes back unchanged.
C4_UnchangedOutsideListedKeys ==
    (Len(outs) >= 2 /\ NoKeyToken(outs[1], ListedKeys)) => outs[2] = outs[1]

\* C4, amended: a name whose trailing token is none of the 17 keys of the
\* table (the 15 listed, St. and Rd.), or that has none, comes back
\* unchanged; the comparison is exact and case-sensitive.
C4_UnchangedOutsideTable ==
    (Len(outs) >= 2 /\ NoKeyToken(outs[1], ListedKeys \cup DottedKeys))
        => outs[2] = outs[1]

\* a name ending in "st", which differs from the key St only by case, has
\* been through update_name
C4_Witness ==
    /\ Len(outs) >= 2
    /\ street_type_re_search(outs[1])
    /\ street_type_re_group(outs[1]) = <<"s", "t">>
    /\ outs[2] = outs[1]

\* C5: update_name applied to its own result returns that result.
C5_Idempotent == Len(outs) >= 3 => outs[3] = outs[2]

\* "S S": the rewrite changed the leading S as well as the trailing token,
\* and update_name has run on the result
C5_Witness ==
    /\ Len(outs) >= 3
    /\ outs[1] = <<"S", " ", "S">>
    /\ outs[2] = <<"S", "o", "u", "t", "h", " ", "S", "o", "u", "t", "h">>

-----------------------------------------------------------------------------
(* Claims about process_map *)

\* the batches joined in call order
RECURSIVE Concat(_)
Concat(batches) ==
    IF batches = <<>> THEN <<>> ELSE Head(batches) \o Concat(Tail(batches))

\* C8: when process_map has returned, the batches passed to insert_many,
\* joined in call order, are the non-None results of shape_element in stream
\* order; a batch flushed before the end of the stream holds exactly
\* BatchSize documents, no batch holds more, and neither does the buffer.
C8_Batching ==
    /\ lpc = "done" => Concat(inserted) = results
    /\ \A b \in 1..Len(inserted) :
           /\ Len(inserted[b]) <= BatchSize
           /\ (b < Len(inserted) \/ lpc = "loop") => Len(inserted[b]) = BatchSize
    /\ Len(data) <= BatchSize

\* process_map has returned after two full batches and a partial one, on a
\* stream that also held elements shape_element turns into None
C8_Witness ==
    /\ lpc = "done"
    /\ Len(inserted) >= 3
    /\ Len(inserted[Len(inserted)]) \in 1..(BatchSize - 1)
    /\ nread > Len(results)

-----------------------------------------------------------------------------
(* Claims about the cleaning passes *)

PostcodeOf(doc) == AddressOf(doc)[k_postcode].s

\* C6: each pass run again right after itself leaves every document as it
\* was, and after pass 1 no document has the province British Columbia.
C6_PassesIdempotent ==
    /\ reps >= 2 => store = before
    /\ last = 1 => \A d \in DOMAIN store : ~ ProvinceIsBritishColumbia(store[d])

\* pass 1 has run twice on a collection that held a British Columbia
C6_Witness ==
    /\ last = 1
    /\ reps >= 2
    /\ \E d \in DOMAIN store :
           ProvinceIsBritishColumbia(loaded[d]) /\ ProvinceIsBC(store[d])

\* C7: pass 5 sets the postcode of every document whose country is US and
\* whose postcode does not match ^\d{5}$ to its first five characters (to
\* itself when it has fewer), and leaves every other postcode as it was.
C7_Truncation ==
    (last = 5 /\ reps = 1) =>
        \A d \in DOMAIN store :
            LET old == AddressOf(before[d])
                new == AddressOf(store[d])
            IN  IF /\ FieldEq(before[d], k_country, v_US)
                   /\ k_postcode \in DOMAIN old
                   /\ ~ postcode_re_search(old[k_postcode].s)
                THEN /\ k_postcode \in DOMAIN new
                     /\ new[k_postcode] =
                            SStr(IF Len(old[k_postcode].s) < 5
                                 THEN old[k_postcode].s
                                 ELSE SubSeq(old[k_postcode].s, 1, 5))
                ELSE /\ (k_postcode \in DOMAIN new) = (k_postcode \in DOMAIN old)
                     /\ k_postcode \in DOMAIN old => new[k_postcode] = old[k_postcode]

\* pass 5 has cut a US postcode of more than five characters and, in the
\* same run, left a shorter one that is not five digits as it was
C7_Witness ==
    /\ last = 5
    /\ reps = 1
    /\ \E d \in DOMAIN store :
           /\ FieldEq(before[d], k_country, v_US)
           /\ FieldExists(before[d], k_postcode)
           /\ Len(PostcodeOf(before[d])) > 5
           /\ Len(PostcodeOf(store[d])) = 5
    /\ \E d \in DOMAIN store :
           /\ FieldEq(before[d], k_country, v_US)
           /\ FieldExists(before[d], k_postcode)
           /\ Len(PostcodeOf(before[d])) \in 1..4
           /\ store[d] = before[d]

\* C9 as stated: once the five passes have run, every document whose
\* province is BC has the country CA.
C9_ProvinceBCHasCountryCA ==
    pc = 6 => \A d \in DOMAIN store :
                  ProvinceIsBC(store[d]) => FieldEq(store[d], k_country, v_CA)

\* C9, amended: once the five passes have run, every document whose province
\* is BC has the country CA unless its state is WA, and then pass 4 has set
\* its country to US.
C9_ProvinceBCHasCountryCAUnlessWA ==
    pc = 6 => \A d \in DOMAIN store :
                  ProvinceIsBC(store[d]) =>
                      IF StateIsWA(store[d])
                      THEN FieldEq(store[d], k_country, v_US)
                      ELSE FieldEq(store[d], k_country, v_CA)

\* the passes have run on a collection that held a British Columbia with no
\* country, which is now BC with the country CA
C9_Witness ==
    /\ pc = 6
    /\ \E d \in DOMAIN store :
           /\ ProvinceIsBritishColumbia(loaded[d])
           /\ ~ FieldExists(loaded[d], k_country)
           /\ ProvinceIsBC(store[d])
           /\ FieldEq(store[d], k_country, v_CA)

\* C10: once the passes have run, no document with the country US and a
\* postcode has a postcode that fails ^\d{5}$.
C10_AllPostcodesFixed ==
    pc = 6 => /\ \A d \in DOMAIN store :
                  (FieldEq(store[d], k_country, v_US) /\ FieldExists(store[d], k_postcode))
                      => postcode_re_search(PostcodeOf(store[d]))
             /\ Unfixed(store) = 0

=============================================================================
